---------------------------- MODULE Spec2Model ----------------------------
(***************************************************************************)
(* Model of the path and entity scanners of agensgraph-golang:             *)
(*   ScanPath / readPath / BasicPath   (path.go, here src/unnamed/part_000)*)
(*   ScanEntity / saveEntityData       (src/entity.go)                     *)
(* A byte buffer is a sequence of one-character strings.  Go offsets are   *)
(* 0-based; b[i] of the source is b[i + 1] here.                           *)
(***************************************************************************)
EXTENDS Integers, Sequences, FiniteSets, TLC

VARIABLES
    p,        \* the BasicPath value that Scan is called on
    src,      \* the source of the last Scan / ScanEntity call
    ret,      \* how the last call ended: "none", "nil", "error", "panic"
    saved,    \* the SavePath calls the last ScanPath made, in order
    lexErr,   \* an entity lexer reported an error during the last readPath
    sepErr,   \* the last readPath skipped a byte other than "," as separator
    clean,    \* every call so far returned without error
    calls,    \* number of calls made so far on the same value
    ent,      \* the entity that ScanEntity is called on
    entLog    \* the calls the last ScanEntity made on the entity, in order

vars == <<p, src, ret, saved, lexErr, sepErr, clean, calls, ent, entLog>>

-----------------------------------------------------------------------------
(* Bounds of the model *)

\* most elements between the brackets of a generated path literal
MaxElems == 3
\* most Scan calls on one BasicPath value (SpecSeq)
MaxCalls == 3
\* most ScanEntity calls on one entity (SpecEntity)
MaxEntityCalls == 2

-----------------------------------------------------------------------------
(* Bytes and buffers *)

\* the member of a one-element set: {F(v) : v \in {e}} computes e once
Only(S) == CHOOSE x \in S : TRUE

\* b[from:] of Go, from 0-based
SliceFrom(b, from) == SubSeq(b, from + 1, Len(b))

\* bytes.HasPrefix
HasPrefix(b, prefix) ==
    /\ Len(b) >= Len(prefix)
    /\ SubSeq(b, 1, Len(prefix)) = prefix

nullElementValue == <<"N", "U", "L", "L">>

Digits == {"0", "1", "2", "3", "4", "5", "6", "7", "8", "9"}

Whitespace == {" "}

DigitVal(c) ==
    CASE c = "0" -> 0 [] c = "1" -> 1 [] c = "2" -> 2 [] c = "3" -> 3
      [] c = "4" -> 4 [] c = "5" -> 5 [] c = "6" -> 6 [] c = "7" -> 7
      [] c = "8" -> 8 [] c = "9" -> 9

\* first 0-based offset >= i whose byte is in stop, or Len(b) when there is none
RECURSIVE IndexOf(_, _, _)
IndexOf(b, i, stop) ==
    IF i >= Len(b) THEN Len(b)
    ELSE IF b[i + 1] \in stop THEN i
    ELSE IndexOf(b, i + 1, stop)

-----------------------------------------------------------------------------
(* Identifier: digits "." digits *)

RECURSIVE ParseNat(_, _)
ParseNat(s, acc) ==
    IF s = <<>> THEN acc ELSE ParseNat(Tail(s), acc * 10 + DigitVal(Head(s)))

IsDigits(s) == Len(s) >= 1 /\ \A k \in 1..Len(s) : s[k] \in Digits

NoId == <<0, 0>>

\* [ok, id] for the two halves l and r of an identifier
GraphIdOf(l, r) ==
    IF IsDigits(l) /\ IsDigits(r)
    THEN [ok |-> TRUE, id |-> <<ParseNat(l, 0), ParseNat(r, 0)>>]
    ELSE [ok |-> FALSE, id |-> NoId]

\* [ok, id] for the byte range s
ParseGraphId(s) ==
    Only({IF dot < Len(s)
          THEN GraphIdOf(SubSeq(s, 1, dot), SubSeq(s, dot + 2, Len(s)))
          ELSE [ok |-> FALSE, id |-> NoId] :
          dot \in {IndexOf(s, 0, {"."})}})

-----------------------------------------------------------------------------
(* ValueExtentScanner: the extent of the JSON value at offset off *)

Opens == {"{", "["}
Closes == {"}", "]"}
ScalarEnd == Whitespace \cup {",", "}", "]"}

\* offset just past the value once depth is back to zero, -1 when the buffer
\* ends first
RECURSIVE ScanNested(_, _, _, _)
ScanNested(b, i, depth, inStr) ==
    IF i >= Len(b) THEN -1
    ELSE IF inStr THEN ScanNested(b, i + 1, depth, b[i + 1] # "\"")
    ELSE IF b[i + 1] = "\"" THEN ScanNested(b, i + 1, depth, TRUE)
    ELSE IF b[i + 1] \in Opens THEN ScanNested(b, i + 1, depth + 1, FALSE)
    ELSE IF b[i + 1] \in Closes /\ depth = 1 THEN i + 1
    ELSE IF b[i + 1] \in Closes THEN ScanNested(b, i + 1, depth - 1, FALSE)
    ELSE ScanNested(b, i + 1, depth, FALSE)

\* the end found by IndexOf, or -1 when it is `none`
EndOr(e, none, end) == IF e = none THEN -1 ELSE end

ScanValueExtent(b, off) ==
    IF off >= Len(b) THEN -1
    ELSE IF b[off + 1] \in Opens THEN ScanNested(b, off + 1, 1, FALSE)
    ELSE IF b[off + 1] = "\""
    THEN Only({EndOr(q, Len(b), q + 1) : q \in {IndexOf(b, off + 1, {"\""})}})
    ELSE Only({EndOr(e, off, e) : e \in {IndexOf(b, off, ScalarEnd)}})

-----------------------------------------------------------------------------
(* Values: *entityData pointers and interface{} values.  Every *entityData *)
(* and every interface value has the same record shape so that any two can *)
(* be compared.                                                            *)

NoCore == [kind |-> "nil", label |-> <<>>, id |-> NoId, start |-> NoId, end |-> NoId]

\* the nil *entityData
NilEntityData == [null |-> TRUE, core |-> NoCore, properties |-> <<>>]

EntityData(core, properties) ==
    [null |-> FALSE, core |-> core, properties |-> properties]

\* the nil interface{} (no dynamic type)
NilIface == [typ |-> "nil", ptr |-> NilEntityData, bytes |-> <<>>]

\* an interface{} holding a *entityData, nil pointer or not
PtrIface(d) == [typ |-> "*entityData", ptr |-> d, bytes |-> <<>>]

\* an interface{} holding a []byte
BytesIface(b) == [typ |-> "[]byte", ptr |-> NilEntityData, bytes |-> b]

\* an interface{} holding a value of a type the scanners do not know
StringIface == [typ |-> "string", ptr |-> NilEntityData, bytes |-> <<>>]

-----------------------------------------------------------------------------
(* EntityLexer: one vertex or edge literal at the start of b.              *)
(* Result [n, d, err]: bytes consumed, the entity (nil for the null        *)
(* sentinel) and whether an error is reported.  A failed lexer returns the *)
(* zero values n = 0, d = nil with its error.                              *)

LexFail == [n |-> 0, d |-> NilEntityData, err |-> TRUE]

LexNull == [n |-> Len(nullElementValue), d |-> NilEntityData, err |-> FALSE]

NoHead == [ok |-> FALSE, label |-> <<>>, id |-> NoId, next |-> 0]

\* "[" identifier "]" after a label that ends at offset lb
HeadAt(b, lb) ==
    Only({Only({IF rb < Len(b) /\ id.ok
                THEN [ok |-> TRUE, label |-> SubSeq(b, 1, lb), id |-> id.id,
                      next |-> rb + 1]
                ELSE NoHead :
                id \in {ParseGraphId(SubSeq(b, lb + 2, rb))}}) :
          rb \in {IndexOf(b, lb + 1, {"]"})}})

\* label "[" identifier "]": [ok, label, id, next] with next the offset past "]"
ReadHead(b) ==
    Only({IF lb >= 1 /\ lb < Len(b) /\ b[lb + 1] = "[" THEN HeadAt(b, lb)
          ELSE NoHead :
          lb \in {IndexOf(b, 0, {"["} \cup Whitespace)}})

NoEnds == [ok |-> FALSE, start |-> NoId, end |-> NoId, next |-> 0]

\* identifier "," identifier between the "[" at off and the "]" at rb
EndsBetween(b, off, cm, rb) ==
    Only({IF s.ok /\ e.ok
          THEN [ok |-> TRUE, start |-> s.id, end |-> e.id, next |-> rb + 1]
          ELSE NoEnds :
          s \in {ParseGraphId(SubSeq(b, off + 2, cm))},
          e \in {ParseGraphId(SubSeq(b, cm + 2, rb))}})

\* "[" identifier "," identifier "]" at offset off: [ok, start, end, next]
ReadEnds(b, off) ==
    Only({IF off < Len(b) /\ b[off + 1] = "[" /\ rb < Len(b) /\ cm < rb
          THEN EndsBetween(b, off, cm, rb)
          ELSE NoEnds :
          rb \in {IndexOf(b, off, {"]"})}, cm \in {IndexOf(b, off, {","})}})

\* the vertex whose head is h and whose properties end at offset e
VertexOf(b, h, e) ==
    IF e < 0 THEN LexFail
    ELSE [n |-> e,
          d |-> EntityData([kind |-> "VertexCore", label |-> h.label,
                            id |-> h.id, start |-> NoId, end |-> NoId],
                           SubSeq(b, h.next + 1, e)),
          err |-> FALSE]

readVertexElement(b) ==
    IF HasPrefix(b, nullElementValue) THEN LexNull
    ELSE Only({IF h.ok THEN VertexOf(b, h, ScanValueExtent(b, h.next))
               ELSE LexFail :
               h \in {ReadHead(b)}})

\* the edge with head h and ends se whose properties end at offset e
EdgeOf(b, h, se, e) ==
    IF e < 0 THEN LexFail
    ELSE [n |-> e,
          d |-> EntityData([kind |-> "EdgeCore", label |-> h.label,
                            id |-> h.id, start |-> se.start, end |-> se.end],
                           SubSeq(b, se.next + 1, e)),
          err |-> FALSE]

\* the rest of an edge literal after its head h
EdgeAfter(b, h) ==
    Only({IF se.ok THEN EdgeOf(b, h, se, ScanValueExtent(b, se.next))
          ELSE LexFail :
          se \in {ReadEnds(b, h.next)}})

readEdgeElement(b) ==
    IF HasPrefix(b, nullElementValue) THEN LexNull
    ELSE Only({IF h.ok THEN EdgeAfter(b, h) ELSE LexFail : h \in {ReadHead(b)}})

\* the lexer readPath holds in `read` for the element at 0-based index i
ReadAt(i, b) == IF i % 2 = 0 THEN readVertexElement(b) ELSE readEdgeElement(b)

-----------------------------------------------------------------------------
(* Errors.  A call ends "nil" (no error), with one of the errors below, or  *)
(* "panic" when the Go runtime aborts it (index out of range, panic()).     *)

Errors == {"ErrInvalidSource", "ErrBadRepresentation", "ErrInvalidElement",
           "ErrReadEntity", "ErrSaveEntity", "ErrSaveProperties", "ErrUnmarshal"}

IsError(r) == r \in Errors

-----------------------------------------------------------------------------
(* Entities.  An entity is [kind, hasPS, Valid, core, properties]: kind is *)
(* "vertex" or "edge" (which readEntity it has and which core it stores),  *)
(* hasPS says whether it implements PropertiesSaver.  Each method returns  *)
(* [err, e, log]: its error, the entity afterwards and the calls made.     *)

ZeroEntity(kind, hasPS) ==
    [kind |-> kind, hasPS |-> hasPS, Valid |-> FALSE, core |-> NoCore,
     properties |-> <<>>]

LogEntry(op, valid, core, b) == [op |-> op, valid |-> valid, core |-> core, b |-> b]

CoreKindOf(e) == IF e.kind = "vertex" THEN "VertexCore" ELSE "EdgeCore"

\* the only JSON object text over the bytes of the model ("{" "}" without
\* quotes or colons) that encoding/json decodes into a struct
JsonObjectOk(b) == b = <<"{", "}">>

\* EntitySaver.SaveEntity of an entity: rejects a core of the other kind
SaveEntity(e, valid, core) ==
    IF ~valid
    THEN [err |-> "nil", e |-> [e EXCEPT !.Valid = FALSE],
          log |-> <<LogEntry("SaveEntity", valid, core, <<>>)>>]
    ELSE IF core.kind # CoreKindOf(e)
    THEN [err |-> "ErrSaveEntity", e |-> [e EXCEPT !.Valid = TRUE],
          log |-> <<LogEntry("SaveEntity", valid, core, <<>>)>>]
    ELSE [err |-> "nil", e |-> [e EXCEPT !.Valid = TRUE, !.core = core],
          log |-> <<LogEntry("SaveEntity", valid, core, <<>>)>>]

\* storing the properties b by the route op, with error name bad
StoreProperties(e, b, op, bad) ==
    IF JsonObjectOk(b)
    THEN [err |-> "nil", e |-> [e EXCEPT !.properties = b],
          log |-> <<LogEntry(op, TRUE, NoCore, b)>>]
    ELSE [err |-> bad, e |-> e, log |-> <<LogEntry(op, TRUE, NoCore, b)>>]

\* PropertiesSaver.SaveProperties of an entity that implements it
SaveProperties(e, b) == StoreProperties(e, b, "SaveProperties", "ErrSaveProperties")

\* json.Unmarshal(b, entity)
Unmarshal(e, b) == StoreProperties(e, b, "Unmarshal", "ErrUnmarshal")

\* the lexer's result r for the whole buffer b, as readEntity returns it
WholeEntity(r, b) ==
    IF r.err \/ r.n # Len(b)
    THEN [d |-> NilEntityData, err |-> "ErrReadEntity"]
    ELSE [d |-> r.d, err |-> "nil"]

\* entity.readEntity(b): the lexer of the entity's kind over the whole buffer
readEntity(e, b) ==
    Only({WholeEntity(r, b) : r \in {ReadAt(IF e.kind = "vertex" THEN 0 ELSE 1, b)}})

\* the properties step without the PropertiesSaver route
DeliverPropertiesDefaultOnly(e, d) == Unmarshal(e, d.properties)

\* lines 103-107, the properties step: exactly one of the two routes
DeliverProperties(e, d) ==
    IF e.hasPS THEN SaveProperties(e, d.properties) ELSE Unmarshal(e, d.properties)

\* s followed by q, both [err, e, log]
Then(s, q) == [err |-> q.err, e |-> q.e, log |-> s.log \o q.log]

\* lines 98-108: after SaveEntity returned s
AfterSaveEntity(s, d) ==
    IF s.err # "nil" THEN s
    ELSE Only({Then(s, q) : q \in {DeliverProperties(s.e, d)}})

saveEntityData(d, e) ==
    IF d.null THEN [err |-> "panic", e |-> e, log |-> <<>>]
    ELSE Only({AfterSaveEntity(s, d) : s \in {SaveEntity(e, TRUE, d.core)}})

\* lines 80-83: after readEntity returned r
AfterReadEntity(r, e, b) ==
    IF r.err # "nil"
    THEN [err |-> r.err, e |-> e,
          log |-> <<LogEntry("readEntity", TRUE, NoCore, b)>>]
    ELSE Only({[v EXCEPT !.log = <<LogEntry("readEntity", TRUE, NoCore, b)>> \o @] :
               v \in {saveEntityData(r.d, e)}})

ScanEntity(s, e) ==
    CASE s.typ = "[]byte" ->
            IF Len(s.bytes) < 1
            THEN [err |-> "ErrInvalidSource", e |-> e, log |-> <<>>]
            ELSE Only({AfterReadEntity(r, e, s.bytes) : r \in {readEntity(e, s.bytes)}})
      [] s.typ = "*entityData" -> saveEntityData(s.ptr, e)
      [] s.typ = "nil" -> SaveEntity(e, FALSE, NoCore)
      [] OTHER -> [err |-> "ErrInvalidSource", e |-> e, log |-> <<>>]

-----------------------------------------------------------------------------
(* readPath *)

\* the append without the nil test: a nil pointer wrapped in an interface
AppendElementTyped(ds, d) == Append(ds, PtrIface(d))

\* lines 97-101: a nil *entityData is appended as the nil interface
AppendElement(ds, d) ==
    IF d.null THEN Append(ds, NilIface) ELSE Append(ds, PtrIface(d))

\* line 91: the test is on the named result err, which is still nil here,
\* not on r, the error the lexer returned
ElementFailed(err, r) == err

\* lines 91-103 for the element read at offset a with lexer result r
AfterRead(st, a, r, sp) ==
    IF ElementFailed(FALSE, r.err)
    THEN [advance |-> a, ds |-> st.ds, err |-> "ErrInvalidElement",
          lexErr |-> TRUE, sepErr |-> sp]
    ELSE [advance |-> a + r.n, ds |-> AppendElement(st.ds, r.d),
          err |-> "nil", lexErr |-> st.lexErr \/ r.err, sepErr |-> sp]

\* lines 85-90: the separator skipped (any byte), then the read at offset a
ReadFrom(b, st, a) ==
    Only({AfterRead(st, a, r, st.sepErr \/ (a > st.advance /\ b[a] # ",")) :
          r \in {ReadAt(Len(st.ds), SliceFrom(b, a))}})

\* lines 85-103, one pass of the loop body over the loop state
\* [advance, ds, err, lexErr, sepErr].  lexErr and sepErr only observe:
\* lexErr collects whether any lexer reported an error, sepErr whether a
\* skipped separator was not ","
readPathIter(b, st) ==
    ReadFrom(b, st, IF Len(st.ds) > 0 THEN st.advance + 1 ELSE st.advance)

\* the loop of lines 84-105
RECURSIVE readPathLoop(_, _)
readPathLoop(b, st) ==
    IF st.err # "nil" THEN st
    ELSE IF st.advance >= Len(b) THEN [st EXCEPT !.err = "panic"]
    ELSE IF b[st.advance + 1] = "]" THEN [st EXCEPT !.advance = @ + 1]
    ELSE Only({readPathLoop(b, nx) : nx \in {readPathIter(b, st)}})

\* the test of line 72 for the null sentinel
StartsWithNull(b) == HasPrefix(b, nullElementValue)

readPath(b) ==
    IF StartsWithNull(b)
    THEN [advance |-> Len(nullElementValue), ds |-> <<>>, err |-> "nil",
          lexErr |-> FALSE, sepErr |-> FALSE]
    ELSE IF b[1] # "["
    THEN [advance |-> 0, ds |-> <<>>, err |-> "ErrBadRepresentation",
          lexErr |-> FALSE, sepErr |-> FALSE]
    ELSE readPathLoop(b, [advance |-> 1, ds |-> <<>>, err |-> "nil",
                          lexErr |-> FALSE, sepErr |-> FALSE])

-----------------------------------------------------------------------------
(* BasicPath: [Valid, Vertices, Edges] *)

ZeroVertex == ZeroEntity("vertex", TRUE)
ZeroEdge == ZeroEntity("edge", TRUE)

ZeroPath == [Valid |-> FALSE, Vertices |-> <<>>, Edges |-> <<>>]

\* BasicVertex.Scan and BasicEdge.Scan: ScanEntity on the value itself
EntityScan(e, s) == ScanEntity(s, e)

\* line 171: the error of the last vertex's Scan is dropped
LastVertexResult(err) == IF err = "panic" THEN "panic" ELSE "nil"

\* lines 164-169: after Edges[i].Scan returned e
AfterEdge(st, e) ==
    IF e.err # "nil"
    THEN [st EXCEPT !.p.Edges[st.i + 1] = e.e, !.err = e.err]
    ELSE [p |-> [st.p EXCEPT !.Edges[st.i + 1] = e.e], i |-> st.i + 1,
          j |-> st.j + 2, err |-> "nil"]

\* lines 160-164: after Vertices[i].Scan returned v
AfterVertex(st, ds, v) ==
    IF v.err # "nil"
    THEN [st EXCEPT !.p.Vertices[st.i + 1] = v.e, !.err = v.err]
    ELSE Only({AfterEdge([st EXCEPT !.p.Vertices[st.i + 1] = v.e], e) :
               e \in {EntityScan(st.p.Edges[st.i + 1], ds[st.j + 2])}})

\* line 171 and 173: after the last vertex's Scan returned v
AfterLastVertex(st, v) ==
    [err |-> LastVertexResult(v.err),
     p |-> [st.p EXCEPT !.Vertices[st.i + 1] = v.e]]

\* lines 159-173 over the loop state [p, i, j, err]: a pass of the loop while
\* i < ne, then the last vertex.  ds[j] past the end of ds aborts the call.
RECURSIVE SavePathLoop(_, _, _)
SavePathLoop(st, ds, ne) ==
    IF st.err # "nil" THEN [err |-> st.err, p |-> st.p]
    ELSE IF st.j >= Len(ds) THEN [err |-> "panic", p |-> st.p]
    ELSE Only({IF st.i < ne
               THEN Only({SavePathLoop(nx, ds, ne) : nx \in {AfterVertex(st, ds, v)}})
               ELSE AfterLastVertex(st, v) :
               v \in {EntityScan(st.p.Vertices[st.i + 1], ds[st.j + 1])}})

\* lines 152-156: the slices a non-empty path allocates
Allocate(q, ne) ==
    [q EXCEPT !.Vertices = [k \in 1..(ne + 1) |-> ZeroVertex],
              !.Edges = IF ne > 0 THEN [k \in 1..ne |-> ZeroEdge] ELSE q.Edges]

\* SavePath without its first assignment
SetValidDropped(q, valid) == q

\* line 142
SetValid(q, valid) == [q EXCEPT !.Valid = valid]

\* lines 143-173 on the path q whose Valid is set
SaveInto(q, valid, ds) ==
    IF ~valid THEN [err |-> "nil", p |-> q]
    ELSE IF Len(ds) < 1 THEN [err |-> "nil", p |-> q]
    ELSE SavePathLoop([p |-> Allocate(q, Len(ds) \div 2), i |-> 0, j |-> 0,
                       err |-> "nil"],
                      ds, Len(ds) \div 2)

\* BasicPath.SavePath: [err, p]
SavePath(q, valid, ds) == SaveInto(SetValid(q, valid), valid, ds)

-----------------------------------------------------------------------------
(* ScanPath with a BasicPath as its saver: [ret, p, saved, lexErr, sepErr], *)
(* where saved lists the SavePath calls made.                               *)

SaveCall(valid, ds) == [valid |-> valid, ds |-> ds]

NoSave(e, q, r) ==
    [ret |-> e, p |-> q, saved |-> <<>>, lexErr |-> r.lexErr, sepErr |-> r.sepErr]

NoRead == [lexErr |-> FALSE, sepErr |-> FALSE]

\* the call saver.SavePath(valid, ds) and its result as ScanPath's
Save(q, valid, ds, r) ==
    Only({[ret |-> v.err, p |-> v.p, saved |-> <<SaveCall(valid, ds)>>,
           lexErr |-> r.lexErr, sepErr |-> r.sepErr] :
          v \in {SavePath(q, valid, ds)}})

\* line 64: the whole buffer must have been consumed
WholeBuffer(advance, n) == advance = n

\* lines 61-68: after readPath returned r
AfterReadPath(r, q, n) ==
    IF r.err # "nil" THEN NoSave(r.err, q, r)
    ELSE IF ~WholeBuffer(r.advance, n) THEN NoSave("ErrBadRepresentation", q, r)
    ELSE Save(q, TRUE, r.ds, r)

ScanPath(s, q) ==
    IF s.typ = "nil" THEN Save(q, FALSE, <<>>, NoRead)
    ELSE IF s.typ # "[]byte" THEN NoSave("ErrInvalidSource", q, NoRead)
    ELSE IF Len(s.bytes) < 1 THEN NoSave("ErrInvalidSource", q, NoRead)
    ELSE Only({AfterReadPath(r, q, Len(s.bytes)) : r \in {readPath(s.bytes)}})

-----------------------------------------------------------------------------
(* Inputs *)

LB == <<"[">>
RB == <<"]">>

VertexLit == <<"A", "[", "1", ".", "1", "]", "{", "}">>
Vertex2Lit == <<"C", "[", "1", ".", "2", "]", "{", "}">>
EdgeLit ==
    <<"B", "[", "2", ".", "1", "]", "[", "1", ".", "1", ",", "1", ".", "2", "]",
      "{", "}">>
\* a vertex whose properties are well bracketed but are not a JSON object
BadPropsLit == <<"A", "[", "1", ".", "1", "]", "{", ",", "}">>
\* an edge whose properties value is cut short
CutEdgeLit ==
    <<"A", "B", "[", "2", ".", "1", "]", "[", "1", ".", "1", ",", "1", ".", "2",
      "]", "[", "[">>

Elems == {VertexLit, EdgeLit, nullElementValue, BadPropsLit, CutEdgeLit}
Seps == {<<",">>, <<";">>}
Closers == {RB, <<>>}
Trails == {<<>>, <<"]">>, <<"x">>}

\* the element lists of exactly k elements, each later one after a separator
RECURSIVE Bodies(_)
Bodies(k) ==
    IF k = 0 THEN {<<>>}
    ELSE IF k = 1 THEN Elems
    ELSE {x \o s \o e : x \in Bodies(k - 1), s \in Seps, e \in Elems}

Literals ==
    {nullElementValue, <<>>, <<"x">>}
    \cup {LB \o x \o c : x \in UNION {Bodies(k) : k \in 0..MaxElems}, c \in Closers}

Buffers == {l \o t : l \in Literals, t \in Trails}

PathSources == {NilIface, StringIface} \cup {BytesIface(b) : b \in Buffers}

-----------------------------------------------------------------------------
(* Specifications *)

NoEntity == ZeroEntity("vertex", FALSE)

Init ==
    /\ p = ZeroPath
    /\ src = NilIface
    /\ ret = "none"
    /\ saved = <<>>
    /\ lexErr = FALSE
    /\ sepErr = FALSE
    /\ clean = TRUE
    /\ calls = 0
    /\ ent = NoEntity
    /\ entLog = <<>>

\* BasicPath.Scan(s) on p
ScanWith(s) ==
    \E r \in {ScanPath(s, p)} :
    /\ p' = r.p
    /\ src' = s
    /\ ret' = r.ret
    /\ saved' = r.saved
    /\ lexErr' = r.lexErr
    /\ sepErr' = r.sepErr
    /\ clean' = (clean /\ r.ret = "nil")
    /\ calls' = calls + 1
    /\ UNCHANGED <<ent, entLog>>

\* one Scan of any source on a fresh BasicPath
Scan ==
    /\ calls < 1
    /\ \E s \in PathSources : ScanWith(s)

Next == Scan

Spec == Init /\ [][Next]_vars

\* Scan after Scan on the same BasicPath; a panic ends the program
SeqSources ==
    {NilIface, StringIface}
    \cup {BytesIface(b) :
            b \in {nullElementValue,
                   LB \o RB,
                   LB \o VertexLit \o RB,
                   LB \o Vertex2Lit \o RB,
                   LB \o nullElementValue \o RB,
                   LB \o BadPropsLit \o RB,
                   LB \o VertexLit \o <<",">> \o EdgeLit \o RB,
                   LB \o VertexLit \o <<",">> \o EdgeLit \o <<",">> \o Vertex2Lit \o RB,
                   LB \o Vertex2Lit \o <<",">> \o EdgeLit \o <<",">> \o BadPropsLit \o RB}}

ScanAgain ==
    /\ calls < MaxCalls
    /\ ret # "panic"
    /\ \E s \in SeqSources : ScanWith(s)

NextSeq == ScanAgain

SpecSeq == Init /\ [][NextSeq]_vars

\* ScanEntity after ScanEntity on one entity
Entities == {ZeroEntity(k, h) : k \in {"vertex", "edge"}, h \in BOOLEAN}

Range(f) == {f[k] : k \in DOMAIN f}

\* every element of every sequence ScanPath hands to SavePath
DeliveredElements ==
    UNION {UNION {Range(c.ds) : c \in Range(ScanPath(s, ZeroPath).saved)} :
             s \in PathSources}

EntitySources ==
    {NilIface, StringIface}
    \cup DeliveredElements
    \cup {BytesIface(b) :
            b \in {<<>>, VertexLit, EdgeLit, BadPropsLit, CutEdgeLit,
                   VertexLit \o <<"x">>}}

InitEntity ==
    /\ p = ZeroPath
    /\ src = NilIface
    /\ ret = "none"
    /\ saved = <<>>
    /\ lexErr = FALSE
    /\ sepErr = FALSE
    /\ clean = TRUE
    /\ calls = 0
    /\ ent \in Entities
    /\ entLog = <<>>

ScanEntityStep ==
    /\ calls < MaxEntityCalls
    /\ ret # "panic"
    /\ \E s \in EntitySources :
         \E r \in {ScanEntity(s, ent)} :
         /\ ent' = r.e
         /\ entLog' = r.log
         /\ src' = s
         /\ ret' = r.err
         /\ clean' = (clean /\ r.err = "nil")
         /\ calls' = calls + 1
         /\ UNCHANGED <<p, saved, lexErr, sepErr>>

NextEntity == ScanEntityStep

SpecEntity == InitEntity /\ [][NextEntity]_vars

-----------------------------------------------------------------------------
(* Properties *)

Called == calls >= 1

IsBytes(s) == s.typ = "[]byte"

\* the SavePath call of the last Scan, when it made one
Delivered == saved[1]

\* C1: when an entity lexer invoked by readPath reports an error, ScanPath
\* returns an error and never calls SavePath.
C1_LexerErrorIsReturned ==
    (Called /\ lexErr) => (IsError(ret) /\ saved = <<>>)

\* C2: for a buffer that starts with "[", ScanPath returns an error, without
\* calling SavePath and without aborting, whenever the closing "]" is absent
\* or the byte skipped between two elements is not ",".
C2_BracketAndCommaRequired ==
    (/\ Called
     /\ IsBytes(src)
     /\ Len(src.bytes) >= 1
     /\ src.bytes[1] = "["
     /\ (src.bytes[Len(src.bytes)] # "]" \/ sepErr))
    => (IsError(ret) /\ saved = <<>>)

\* C3: ScanPath calls SavePath(false, nil) for a nil source and for the
\* buffer "NULL", and never SavePath(true, ...) for either.
C3_NullDeliveredNotValid ==
    (Called /\ (src = NilIface \/ src = BytesIface(nullElementValue)))
    => saved = <<SaveCall(FALSE, <<>>)>>

\* the lexer that produced the non-nil element d of index k (1-based)
LexedAtItsPlace(k, d) ==
    d.typ = "*entityData"
    => d.ptr.core.kind = (IF k % 2 = 1 THEN "VertexCore" ELSE "EdgeCore")

\* C4: every non-empty sequence delivered with valid=true has odd length,
\* vertices at the even indices and edges at the odd ones.
C4_DeliveredLengthOdd ==
    (Called /\ saved # <<>> /\ Delivered.valid /\ Delivered.ds # <<>>)
    => (/\ Len(Delivered.ds) % 2 = 1
        /\ \A k \in 1..Len(Delivered.ds) : LexedAtItsPlace(k, Delivered.ds[k]))

Accepts(b) ==
    /\ Len(b) >= 1
    /\ \E r \in {ScanPath(BytesIface(b), ZeroPath)} :
         r.saved # <<>> /\ r.saved[1].valid

\* C6: an accepted path literal followed by one more byte makes ScanPath
\* return an error without calling SavePath.
C6_TrailingByteRejected ==
    (/\ Called
     /\ IsBytes(src)
     /\ Len(src.bytes) >= 2
     /\ Accepts(SubSeq(src.bytes, 1, Len(src.bytes) - 1)))
    => (IsError(ret) /\ saved = <<>>)

\* the entity data ScanEntity saved from src, when there is one
SourceData ==
    IF src.typ = "*entityData" THEN src.ptr ELSE readEntity(ent, src.bytes).d

HasData ==
    \/ src.typ = "*entityData" /\ ~src.ptr.null
    \/ IsBytes(src) /\ Len(src.bytes) >= 1 /\ readEntity(ent, src.bytes).err = "nil"

\* the calls made on the entity, the lexing apart
SaverLog == SelectSeq(entLog, LAMBDA c : c.op # "readEntity")

PropertiesRoute == IF ent.hasPS THEN "SaveProperties" ELSE "Unmarshal"

PropertiesError == IF ent.hasPS THEN "ErrSaveProperties" ELSE "ErrUnmarshal"

\* C7: for a lexed or already parsed entity ScanEntity calls
\* SaveEntity(true, core) first and once; if that fails its error is
\* returned and nothing else is called; otherwise the properties go, once,
\* to SaveProperties when the entity implements PropertiesSaver and to the
\* default decode when not, and that call's error is returned.
C7_SaveEntityThenOneRoute ==
    (Called /\ HasData)
    => (/\ Len(SaverLog) >= 1
        /\ SaverLog[1] = LogEntry("SaveEntity", TRUE, SourceData.core, <<>>)
        /\ IF SourceData.core.kind # CoreKindOf(ent)
           THEN Len(SaverLog) = 1 /\ ret = "ErrSaveEntity"
           ELSE /\ Len(SaverLog) = 2
                /\ SaverLog[2] =
                     LogEntry(PropertiesRoute, TRUE, NoCore, SourceData.properties)
                /\ ret = (IF JsonObjectOk(SourceData.properties) THEN "nil"
                          ELSE PropertiesError))

C7_Witness ==
    /\ Called
    /\ src.typ = "*entityData"
    /\ ent.hasPS
    /\ Len(entLog) = 2
    /\ entLog[2].op = "SaveProperties"
    /\ ret = "nil"

\* C8: ScanEntity of a nil source calls SaveEntity(false, nil) once and
\* nothing else; every element ScanPath delivers is the nil interface or a
\* non-nil *entityData, which ScanEntity saves with valid=true without lexing.
C8_NilAndParsedElements ==
    /\ (Called /\ src \in DeliveredElements)
       => (src = NilIface \/ (src.typ = "*entityData" /\ ~src.ptr.null))
    /\ (Called /\ src = NilIface)
       => (entLog = <<LogEntry("SaveEntity", FALSE, NoCore, <<>>)>> /\ ret = "nil")
    /\ (Called /\ src.typ = "*entityData")
       => (/\ ret # "panic"
           /\ Len(entLog) >= 1
           /\ entLog[1] = LogEntry("SaveEntity", TRUE, src.ptr.core, <<>>)
           /\ \A k \in 1..Len(entLog) : entLog[k].op # "readEntity")

C8_Witness ==
    /\ Called
    /\ src \in DeliveredElements
    /\ src.typ = "*entityData"
    /\ ent.Valid
    /\ ret = "nil"

\* materialising the element d of index k (1-based) of a path fails
MaterialiseFails(k, d) ==
    EntityScan(IF k % 2 = 1 THEN ZeroVertex ELSE ZeroEdge, d).err # "nil"

\* C9: if materialising any element of a delivered path of 2k+1 elements
\* fails inside BasicPath.SavePath, Scan does not return nil.
C9_ElementErrorReturned ==
    (/\ Called
     /\ saved # <<>>
     /\ Delivered.valid
     /\ Len(Delivered.ds) % 2 = 1
     /\ \E k \in 1..Len(Delivered.ds) : MaterialiseFails(k, Delivered.ds[k]))
    => ret # "nil"

\* the vertex or edge e was scanned from an element of ds
FromSequence(e, ds) == \E k \in 1..Len(ds) : EntityScan(ZeroEntity(e.kind, e.hasPS), ds[k]).e = e

\* C10: after successful calls only, the BasicPath reflects the last call:
\* no vertices and no edges when it is not valid or the last path was empty,
\* otherwise one vertex more than edges, all from the last sequence.
C10_StateOfLastCall ==
    (Called /\ clean)
    => IF ~p.Valid \/ Delivered.ds = <<>>
       THEN p.Vertices = <<>> /\ p.Edges = <<>>
       ELSE /\ Len(p.Vertices) = Len(p.Edges) + 1
            /\ \A k \in 1..Len(p.Vertices) : FromSequence(p.Vertices[k], Delivered.ds)
            /\ \A k \in 1..Len(p.Edges) : FromSequence(p.Edges[k], Delivered.ds)

=============================================================================
